---- MODULE Spec2Model ----
(***************************************************************************)
(* Page-props resolution of the Sitecore JSS Next.js application:          *)
(* lib/page-props-factory (extractPath, isServerSidePropsContext,          *)
(* SitecorePagePropsFactory.create and the shared sitecorePagePropsFactory *)
(* instance) and pages/[[...path]].tsx (getServerSideProps, SitecorePage). *)
(*                                                                         *)
(* create is an async function: it runs without interruption from one      *)
(* await to the next, and other create calls on the same factory instance  *)
(* run only while it is suspended at an await.  Every action below is one  *)
(* such uninterrupted segment of one call.                                 *)
(***************************************************************************)
EXTENDS Integers, Sequences, FiniteSets, Bags, TLC

\* ------------------------------------------------------------------ bounds
MaxCalls  == 2   \* create calls made on the shared factory instance
MaxLen    == 3   \* length of a path given as one string
MaxSegs   == 2   \* number of segments of a path given as a sequence
MaxSegLen == 2   \* length of one segment

\* ------------------------------------------------------------ value spaces
Chars == {"a", "b", "/"}

RECURSIVE StringsUpTo(_)
StringsUpTo(n) ==
  IF n = 0 THEN {<<>>}
  ELSE LET shorter == StringsUpTo(n - 1)
       IN  shorter \cup {Append(s, ch) : s \in shorter, ch \in Chars}

RECURSIVE ArraysUpTo(_, _)
ArraysUpTo(n, elems) ==
  IF n = 0 THEN {<<>>}
  ELSE LET shorter == ArraysUpTo(n - 1, elems)
       IN  shorter \cup {Append(a, e) : a \in shorter, e \in elems}

\* ParsedUrlQuery | undefined, restricted to its `path` key, which is
\* string | string[] | undefined.
PathUndefined == [kind |-> "undefined", str |-> <<>>, arr |-> <<>>]
PathString(s) == [kind |-> "string", str |-> s, arr |-> <<>>]
PathArray(a)  == [kind |-> "array", str |-> <<>>, arr |-> a]

ParamsUndefined == [defined |-> FALSE, path |-> PathUndefined]
Params(p)       == [defined |-> TRUE, path |-> p]

AllParams ==
  {ParamsUndefined, Params(PathUndefined)}
    \cup {Params(PathString(s)) : s \in StringsUpTo(MaxLen)}
    \cup {Params(PathArray(a)) : a \in ArraysUpTo(MaxSegs, StringsUpTo(MaxSegLen))}

\* ------------------------------------------------------------- extractPath
\* Array.prototype.join
RECURSIVE join(_, _)
join(arr, sep) ==
  IF Len(arr) = 0 THEN <<>>
  ELSE IF Len(arr) = 1 THEN arr[1]
  ELSE arr[1] \o sep \o join(Tail(arr), sep)

\* String.prototype.startsWith
startsWith(s, prefix) ==
  /\ Len(s) >= Len(prefix)
  /\ SubSeq(s, 1, Len(prefix)) = prefix

extractPath_NoLeadingSlash(params) ==
  IF ~params.defined THEN <<"/">>
  ELSE IF params.path.kind = "array" THEN join(params.path.arr, <<"/">>)
  ELSE IF params.path.kind = "string" THEN params.path.str
  ELSE <<"/">>

extractPath(params) ==
  IF ~params.defined THEN <<"/">>
  ELSE LET path == IF params.path.kind = "array"
                     THEN join(params.path.arr, <<"/">>)
                     ELSE IF params.path.kind = "string"
                            THEN params.path.str
                            ELSE <<"/">>
       IN  IF ~startsWith(path, <<"/">>) THEN <<"/">> \o path ELSE path

\* ------------------------------------------------- values seen by create
Null == [isNull |-> TRUE]
Undefined == [isUndefined |-> TRUE]   \* a local variable not assigned yet

Sessions  == {"s1", "s2"}           \* sessions getSession can resolve
NoSession == "null"

DefaultLanguage == "en"              \* pkg.config.language
Locales == {"undefined", "da"}       \* context.locale
EditingLanguages == {"en", "da"}     \* data.language

\* error objects a service can reject with; error.response?.status is
\* status when hasResponse, undefined otherwise
Error(name, hasResponse, status) ==
  [name |-> name, hasResponse |-> hasResponse, status |-> status]
LayoutErrors ==
  { Error("NotFound", TRUE, 404), Error("Unauthorized", TRUE, 401),
    Error("ServerError", TRUE, 500), Error("NetworkError", FALSE, 0) }
\* rejections of the other services
ServiceErrors == {Error("NetworkError", FALSE, 0)}
\* a component's side effect can fail with a status-coded error of its own
ComponentPropsErrors == {Error("NotFound", TRUE, 404), Error("NetworkError", FALSE, 0)}

\* route parameters used by the create calls of the model
CallParams == {Params(PathArray(<<<<"a">>, <<"b">>>>))}

\* GetServerSidePropsContext (req and res present) | GetStaticPropsContext
Contexts ==
  [ preview : BOOLEAN,
    req     : {"undefined", "IncomingMessage"},
    locale  : Locales,
    params  : CallParams ]

Route == [name |-> "home", itemId |-> "item-1"]

LayoutServiceData(route, language) ==
  [sitecore |-> [context |-> [language |-> language, pageEditing |-> FALSE],
                 route   |-> route]]

LayoutResponses(language) ==
  {LayoutServiceData(Route, language), LayoutServiceData(Null, language)}

DictionaryPhrases(language) == [language |-> language]

EditingData ==
  UNION { { [language |-> l, layoutData |-> d, dictionary |-> DictionaryPhrases(l)] :
              d \in LayoutResponses(l) } : l \in EditingLanguages }

EmptyComponentProps == [fetchedBy |-> "none"]

\* ---------------------------------------------------------------- state
VARIABLES
  calls,          \* the create calls made so far (a bag: calls have no identity)
  layoutService,  \* SitecorePagePropsFactory.layoutService of the shared instance
  argParams,      \* extractPath called on its own: the argument
  retPath         \* extractPath called on its own: the result

vars == <<calls, layoutService, argParams, retPath>>

\* One call of create: its position (pc), its arguments and local variables
\* as declared at the top of create, and a record of what it has done:
\*   invoked   the service operations it invoked, in order
\*   fetching  its fetchLayoutData request while that request is in flight
\*   failures  the service rejections it received, in order
\*   outcome   pending, the returned props, or the error create rejected with
\*   response  for a call made by getServerSideProps: the value that function
\*             returned and the page the user is shown
NewCall(context) ==
  [ pc              |-> "getSession",
    context         |-> context,
    data            |-> Undefined,
    locale          |-> "undefined",
    layoutData      |-> Undefined,
    dictionary      |-> Undefined,
    componentProps  |-> EmptyComponentProps,
    notFound        |-> FALSE,
    sitecoreContext |-> Null,
    unauthorized    |-> FALSE,
    invoked         |-> <<"getSession">>,
    fetching        |-> Null,
    failures        |-> <<>>,
    outcome         |-> [status |-> "pending"],
    response        |-> Null ]

\* export const sitecorePagePropsFactory = new SitecorePagePropsFactory()
InitFactory ==
  /\ calls = EmptyBag
  /\ layoutService = [session |-> NoSession]

Init ==
  /\ InitFactory
  /\ argParams = ParamsUndefined
  /\ retPath = <<>>

Running == BagToSet(calls)

\* the call `call` takes one step and becomes `next`
Step(call, next) == calls' = (calls (-) SetToBag({call})) (+) SetToBag({next})

\* ------------------------------------------------------------- helpers
isServerSidePropsContext_AlwaysStatic(context) == FALSE

isServerSidePropsContext(context) == context.req # "undefined"

\* layoutData?.sitecore.route is truthy
HasRoute(layoutData) ==
  /\ layoutData \notin {Null, Undefined}
  /\ layoutData.sitecore.route # Null

Invoke(call, op) == [call EXCEPT !.invoked = Append(@, op)]

\* the operation the call is waiting for rejects with error
Failed(call, error) ==
  [call EXCEPT !.failures =
     Append(@, [op |-> call.invoked[Len(call.invoked)], error |-> error])]

\* create rejects with error
Reject(call, error) ==
  [call EXCEPT !.pc = "rejected",
               !.outcome = [status |-> "rejected", error |-> error]]

\* the return statement of create
SitecorePageProps(call) ==
  [ locale          |-> call.locale,
    dictionary      |-> call.dictionary,
    sitecoreContext |-> call.sitecoreContext,
    componentProps  |-> call.componentProps,
    notFound        |-> call.notFound,
    unauthorized    |-> call.unauthorized ]

Return(call) ==
  [call EXCEPT !.pc = "returned",
               !.outcome = [status |-> "returned", props |-> SitecorePageProps(call)]]

\* from `if (layoutData?.sitecore?.route)` to the await of the component
\* props fetch, or to the return statement when there is no route
RetrieveComponentProps(call) ==
  IF HasRoute(call.layoutData)
  THEN LET route == call.layoutData.sitecore.route
           sitecoreContext ==
             call.layoutData.sitecore.context
               @@ [route |-> route, itemId |-> route.itemId]
           op == IF isServerSidePropsContext(call.context)
                   THEN "fetchServerSideComponentProps"
                   ELSE "fetchStaticComponentProps"
       IN  Invoke([call EXCEPT !.sitecoreContext = sitecoreContext,
                               !.pc = "fetchComponentProps"], op)
  ELSE Return(call)

\* create is called with a context and runs up to `await getSession(context)`
Create(context) ==
  /\ BagCardinality(calls) < MaxCalls
  /\ calls' = calls (+) SetToBag({NewCall(context)})
  /\ UNCHANGED <<layoutService, argParams, retPath>>

\* ------------------------------------------------------------ getSession
GetSessionRejected(call, error) ==
  /\ call.pc = "getSession"
  /\ Step(call, Reject(Failed(call, error), error))
  /\ UNCHANGED <<layoutService, argParams, retPath>>

\* preview mode: from the resolution of getSession to `await getEditingData`
GetSessionFulfilledPreview(call, session) ==
  /\ call.pc = "getSession"
  /\ call.context.preview
  /\ Step(call, Invoke([call EXCEPT !.pc = "getEditingData"], "getEditingData"))
  /\ UNCHANGED <<layoutService, argParams, retPath>>

\* this.layoutService after
\* `if (session) { this.layoutService = layoutServiceFactory.create(session) }`
ReconfiguredLayoutService_Stale(session, current) == current

ReconfiguredLayoutService(session, current) ==
  IF session # NoSession THEN [session |-> session] ELSE current

\* normal mode: from the resolution of getSession to the await of fetchLayoutData
GetSessionFulfilledNormal(call, session) ==
  /\ call.pc = "getSession"
  /\ ~call.context.preview
  /\ LET context == call.context
         path    == extractPath(context.params)
         locale  == IF context.locale # "undefined" THEN context.locale
                                                    ELSE DefaultLanguage
         service == ReconfiguredLayoutService(session, layoutService)
         ssr     == isServerSidePropsContext(context)
         request == [service |-> service,
                     session |-> session,
                     path    |-> path,
                     locale  |-> locale,
                     req     |-> IF ssr THEN context.req ELSE "undefined",
                     res     |-> IF ssr THEN "ServerResponse" ELSE "undefined"]
     IN  /\ layoutService' = service
         /\ Step(call, Invoke([call EXCEPT !.locale = locale,
                                           !.fetching = request,
                                           !.pc = "fetchLayoutData"],
                              "fetchLayoutData"))
  /\ UNCHANGED <<argParams, retPath>>

\* -------------------------------------------------------- getEditingData
GetEditingDataRejected(call, error) ==
  /\ call.pc = "getEditingData"
  /\ Step(call, Reject(Failed(call, error), error))
  /\ UNCHANGED <<layoutService, argParams, retPath>>

EditingDataUnavailable == Error("EditingDataUnavailable", FALSE, 0)

GetEditingDataFulfilled_FallsBack(call, data) ==
  /\ call.pc = "getEditingData"
  /\ IF data = Null
     THEN Step(call, RetrieveComponentProps([call EXCEPT !.data = data,
                                                         !.locale = DefaultLanguage,
                                                         !.layoutData = Null,
                                                         !.dictionary = Null,
                                                         !.notFound = TRUE]))
     ELSE Step(call, RetrieveComponentProps(
                       [call EXCEPT !.data = data,
                                    !.locale = data.language,
                                    !.layoutData = data.layoutData,
                                    !.dictionary = data.dictionary]))
  /\ UNCHANGED <<layoutService, argParams, retPath>>

\* preview mode: from the resolution of getEditingData to the throw, the
\* await of the component props fetch, or the return statement
GetEditingDataFulfilled(call, data) ==
  /\ call.pc = "getEditingData"
  /\ IF data = Null
     THEN Step(call, Reject([call EXCEPT !.data = data], EditingDataUnavailable))
     ELSE Step(call, RetrieveComponentProps(
                       [call EXCEPT !.data = data,
                                    !.locale = data.language,
                                    !.layoutData = data.layoutData,
                                    !.dictionary = data.dictionary]))
  /\ UNCHANGED <<layoutService, argParams, retPath>>

\* ------------------------------------------------------- fetchLayoutData
\* from `if (!layoutData?.sitecore.route) notFound = true` to the await of
\* fetchDictionaryData
FetchDictionary(call) ==
  LET checked == IF ~HasRoute(call.layoutData)
                   THEN [call EXCEPT !.notFound = TRUE]
                   ELSE call
  IN  Invoke([checked EXCEPT !.pc = "fetchDictionaryData"], "fetchDictionaryData")

FetchLayoutDataFulfilled(call, data) ==
  /\ call.pc = "fetchLayoutData"
  /\ Step(call, FetchDictionary([call EXCEPT !.layoutData = data,
                                             !.fetching = Null]))
  /\ UNCHANGED <<layoutService, argParams, retPath>>

CatchFetchLayoutData_Rethrows404(call, error) ==
  IF error.hasResponse /\ error.status = 401
  THEN [rethrow |-> FALSE,
        call    |-> [call EXCEPT !.unauthorized = TRUE, !.layoutData = Null]]
  ELSE [rethrow |-> TRUE, call |-> call]

CatchFetchLayoutData_SwallowsAll(call, error) ==
  IF error.hasResponse /\ error.status = 401
  THEN [rethrow |-> FALSE,
        call    |-> [call EXCEPT !.unauthorized = TRUE, !.layoutData = Null]]
  ELSE [rethrow |-> FALSE,
        call    |-> [call EXCEPT !.notFound = TRUE, !.layoutData = Null]]

\* the .catch((error) => ...) handler of the fetchLayoutData promise
CatchFetchLayoutData(call, error) ==
  IF error.hasResponse /\ error.status = 404
  THEN [rethrow |-> FALSE,
        call    |-> [call EXCEPT !.notFound = TRUE, !.layoutData = Null]]
  ELSE IF error.hasResponse /\ error.status = 401
  THEN [rethrow |-> FALSE,
        call    |-> [call EXCEPT !.unauthorized = TRUE, !.layoutData = Null]]
  ELSE [rethrow |-> TRUE, call |-> call]

FetchLayoutDataRejected(call, error) ==
  /\ call.pc = "fetchLayoutData"
  /\ LET caught == CatchFetchLayoutData(
                     [Failed(call, error) EXCEPT !.fetching = Null], error)
     IN  IF caught.rethrow
         THEN Step(call, Reject(caught.call, error))
         ELSE Step(call, FetchDictionary(caught.call))
  /\ UNCHANGED <<layoutService, argParams, retPath>>

\* --------------------------------------------------- fetchDictionaryData
FetchDictionaryDataFulfilled(call, phrases) ==
  /\ call.pc = "fetchDictionaryData"
  /\ Step(call, RetrieveComponentProps([call EXCEPT !.dictionary = phrases]))
  /\ UNCHANGED <<layoutService, argParams, retPath>>

FetchDictionaryDataRejected(call, error) ==
  /\ call.pc = "fetchDictionaryData"
  /\ Step(call, Reject(Failed(call, error), error))
  /\ UNCHANGED <<layoutService, argParams, retPath>>

\* --------------------------------------------------- fetch*ComponentProps
\* the props the component props service resolves with
ComponentPropsOf(op) == [fetchedBy |-> op]

FetchComponentPropsFulfilled(call) ==
  /\ call.pc = "fetchComponentProps"
  /\ Step(call, Return([call EXCEPT !.componentProps =
                          ComponentPropsOf(call.invoked[Len(call.invoked)])]))
  /\ UNCHANGED <<layoutService, argParams, retPath>>

FetchComponentPropsRejected(call, error) ==
  /\ call.pc = "fetchComponentProps"
  /\ Step(call, Reject(Failed(call, error), error))
  /\ UNCHANGED <<layoutService, argParams, retPath>>

\* ---------------------------------------------------- pages/[[...path]]
\* the SitecorePage component: which element it renders for given props
SitecorePage(props) ==
  IF props.unauthorized THEN "Unauthorized"
  ELSE IF props.notFound \/ props.sitecoreContext = Null THEN "NotFound"
  ELSE "Layout"

\* the value getServerSideProps returns once create has returned props
getServerSideProps(props) ==
  IF props.notFound THEN [props |-> props, notFound |-> TRUE]
                    ELSE [props |-> props]

\* `notFound: true` in the returned value makes the framework answer with
\* its 404 page and status instead of rendering the page component
PageShown(returned) ==
  IF "notFound" \in DOMAIN returned THEN "Framework404"
                                    ELSE SitecorePage(returned.props)

\* getServerSideProps resumes after `await sitecorePagePropsFactory.create(context)`
GetServerSidePropsReturns(call) ==
  /\ call.pc = "returned"
  /\ isServerSidePropsContext(call.context)
  /\ call.response = Null
  /\ LET returned == getServerSideProps(call.outcome.props)
     IN  Step(call, [call EXCEPT !.response =
                       [returned |-> returned, page |-> PageShown(returned)]])
  /\ UNCHANGED <<layoutService, argParams, retPath>>

\* --------------------------------------------------------- specification
Next ==
  \/ \E context \in Contexts : Create(context)
  \/ \E call \in Running, error \in ServiceErrors : GetSessionRejected(call, error)
  \/ \E call \in Running, session \in Sessions \cup {NoSession} :
       GetSessionFulfilledPreview(call, session)
  \/ \E call \in Running, session \in Sessions \cup {NoSession} :
       GetSessionFulfilledNormal(call, session)
  \/ \E call \in Running, error \in ServiceErrors : GetEditingDataRejected(call, error)
  \/ \E call \in Running, data \in EditingData \cup {Null} :
       GetEditingDataFulfilled(call, data)
  \/ \E call \in Running : \E data \in LayoutResponses(call.locale) :
       FetchLayoutDataFulfilled(call, data)
  \/ \E call \in Running, error \in LayoutErrors : FetchLayoutDataRejected(call, error)
  \/ \E call \in Running :
       FetchDictionaryDataFulfilled(call, DictionaryPhrases(call.locale))
  \/ \E call \in Running, error \in ServiceErrors :
       FetchDictionaryDataRejected(call, error)
  \/ \E call \in Running : FetchComponentPropsFulfilled(call)
  \/ \E call \in Running, error \in ComponentPropsErrors :
       FetchComponentPropsRejected(call, error)
  \/ \E call \in Running : GetServerSidePropsReturns(call)

Spec == Init /\ [][Next]_vars

\* extractPath on its own, over every bounded route-parameters value
InitPath ==
  /\ InitFactory
  /\ argParams \in AllParams
  /\ retPath = <<>>

ExtractPath ==
  /\ retPath = <<>>
  /\ retPath' = extractPath(argParams)
  /\ UNCHANGED <<calls, layoutService, argParams>>

NextPath == ExtractPath

SpecPath == InitPath /\ [][NextPath]_vars

\* ------------------------------------------------------------ properties
Returned(call) == call.outcome.status = "returned"
Rejected(call) == call.outcome.status = "rejected"

\* the call's fetchLayoutData promise rejected with an error of this status
LayoutFailedWith(call, status) ==
  \E i \in 1..Len(call.failures) :
    /\ call.failures[i].op = "fetchLayoutData"
    /\ call.failures[i].error.hasResponse
    /\ call.failures[i].error.status = status

Position(seq, op) == CHOOSE i \in 1..Len(seq) : seq[i] = op
Invoked(call, op) == \E i \in 1..Len(call.invoked) : call.invoked[i] = op
Times(call, op) == Cardinality({i \in 1..Len(call.invoked) : call.invoked[i] = op})

\* C1: every result create returns has at most one of notFound and
\* unauthorized set, and after a layout fetch that failed with status 401 the
\* result has unauthorized = true and notFound = false.
C1_AtMostOneFlag ==
  \A call \in Running :
    Returned(call) =>
      /\ ~(call.outcome.props.notFound /\ call.outcome.props.unauthorized)
      /\ LayoutFailedWith(call, 401) =>
           /\ call.outcome.props.unauthorized
           /\ ~call.outcome.props.notFound

\* C2: in a normal resolution whose layout fetch fails with status 404 the
\* failure does not make create reject: the dictionary fetch is invoked next,
\* create rejects only if that dictionary fetch itself rejects, and otherwise
\* it returns notFound = true, unauthorized = false, sitecoreContext = null
\* and the dictionary fetched for the resolved locale.
C2_NotFoundIsRecovered ==
  \A call \in Running :
    (~call.context.preview /\ LayoutFailedWith(call, 404)) =>
      /\ call.pc \in {"fetchDictionaryData", "returned", "rejected"}
      /\ Times(call, "fetchDictionaryData") = 1
      /\ Position(call.invoked, "fetchLayoutData")
           < Position(call.invoked, "fetchDictionaryData")
      /\ Rejected(call) =>
           /\ call.failures[Len(call.failures)].op = "fetchDictionaryData"
           /\ call.outcome.error = call.failures[Len(call.failures)].error
      /\ Returned(call) =>
           /\ call.outcome.props.notFound
           /\ ~call.outcome.props.unauthorized
           /\ call.outcome.props.sitecoreContext = Null
           /\ call.outcome.props.locale
                = (IF call.context.locale = "undefined" THEN DefaultLanguage
                                                        ELSE call.context.locale)
           /\ call.outcome.props.dictionary
                = DictionaryPhrases(call.outcome.props.locale)

C2_Witness ==
  \E call \in Running :
    /\ ~call.context.preview
    /\ LayoutFailedWith(call, 404)
    /\ Returned(call)
    /\ call.outcome.props.locale = "da"

\* C3: every result create returns with sitecoreContext = null has notFound
\* or unauthorized set, in the preview branch as in the normal branch.
C3_NullContextIsFlagged ==
  \A call \in Running :
    (Returned(call) /\ call.outcome.props.sitecoreContext = Null) =>
      (call.outcome.props.notFound \/ call.outcome.props.unauthorized)

\* C4: a normal-branch resolution whose session lookup returned null fetches
\* its layout with a layout service that carries no session.
C4_NoSessionNoAuthorization ==
  \A call \in Running :
    (call.fetching # Null /\ call.fetching.session = NoSession) =>
      call.fetching.service.session = NoSession

\* C5: a normal-branch resolution whose session lookup returned a session S
\* issues its layout fetch through a layout service configured with S,
\* whatever other create calls are interleaved on the shared factory.
C5_FetchUsesOwnSession ==
  \A call \in Running :
    (call.fetching # Null /\ call.fetching.session \in Sessions) =>
      call.fetching.service.session = call.fetching.session

\* two calls with different sessions have their layout fetches in flight at
\* the same time, and the shared field holds only one of the two services
C5_Witness ==
  \E c1 \in Running, c2 \in Running :
    /\ c1.fetching # Null /\ c2.fetching # Null
    /\ c1.fetching.session \in Sessions
    /\ c2.fetching.session \in Sessions
    /\ c1.fetching.session # c2.fetching.session
    /\ layoutService.session = c2.fetching.session

\* C6: in preview mode, when the editing-data lookup returns no data, create
\* rejects instead of returning, and the resolution never invokes the layout
\* service, the dictionary service or the component props service.
C6_MissingEditingDataIsFatal ==
  \A call \in Running :
    (call.context.preview /\ call.data = Null) =>
      /\ Rejected(call)
      /\ call.outcome.error = EditingDataUnavailable
      /\ \A i \in 1..Len(call.invoked) :
           call.invoked[i] \in {"getSession", "getEditingData"}

C6_Witness ==
  \E call \in Running :
    /\ call.context.preview
    /\ call.data = Null
    /\ call.pc = "rejected"

Downgradable(failure) ==
  /\ failure.op = "fetchLayoutData"
  /\ failure.error.hasResponse
  /\ failure.error.status \in {404, 401}

ComponentPropsOps == {"fetchServerSideComponentProps", "fetchStaticComponentProps"}

\* C7: only layout-fetch failures with status 404 or 401 are downgraded to
\* flags.  A layout-fetch failure with any other status or with no response
\* status, and any failure of the component props fetch, makes create reject
\* with that same error, and the failing invocation is the last one the
\* resolution makes.
C7_OtherFailuresPropagate ==
  \A call \in Running :
    \A i \in 1..Len(call.failures) :
      LET failure == call.failures[i]
      IN  /\ (failure.op = "fetchLayoutData" /\ ~Downgradable(failure)) =>
               /\ Rejected(call)
               /\ call.outcome.error = failure.error
               /\ call.invoked[Len(call.invoked)] = "fetchLayoutData"
          /\ failure.op \in ComponentPropsOps =>
               /\ Rejected(call)
               /\ call.outcome.error = failure.error
               /\ call.invoked[Len(call.invoked)] = failure.op
          /\ ~Rejected(call) => Downgradable(failure)

C7_Witness ==
  /\ \E call \in Running :
       /\ Rejected(call)
       /\ Len(call.failures) = 1
       /\ call.failures[1].op = "fetchLayoutData"
       /\ ~call.failures[1].error.hasResponse
  /\ \E call \in Running :
       /\ Rejected(call)
       /\ Len(call.failures) = 1
       /\ call.failures[1].op \in ComponentPropsOps
       /\ call.failures[1].error.status = 404

\* adjacent slashes in a path
HasDuplicateSlash(path) ==
  \E i \in 1..(Len(path) - 1) : path[i] = "/" /\ path[i + 1] = "/"

OneLeadingSlashNoDuplicates(path) ==
  /\ Len(path) >= 1
  /\ path[1] = "/"
  /\ ~HasDuplicateSlash(path)

Extracted == retPath # <<>>

\* C8 as stated: for every route-parameters value extractPath returns a path
\* that starts with exactly one '/' and has no adjacent slashes; absent
\* parameters or an absent path give '/', segments ["a","b"] give '/a/b'.
C8_AlwaysNormalized ==
  Extracted =>
    /\ OneLeadingSlashNoDuplicates(retPath)
    /\ (~argParams.defined \/ argParams.path.kind = "undefined") => retPath = <<"/">>
    /\ argParams = Params(PathArray(<<<<"a">>, <<"b">>>>)) => retPath = <<"/", "a", "/", "b">>

\* the slashes the caller supplied: a string with adjacent slashes, or a
\* sequence with an empty segment or a segment containing '/'
SuppliesNoSlashRuns(params) ==
  \/ ~params.defined
  \/ params.path.kind = "undefined"
  \/ params.path.kind = "string" /\ ~HasDuplicateSlash(params.path.str)
  \/ /\ params.path.kind = "array"
     /\ \A i \in 1..Len(params.path.arr) :
          /\ Len(params.path.arr[i]) > 0
          /\ \A j \in 1..Len(params.path.arr[i]) : params.path.arr[i][j] # "/"

\* C8 amended: extractPath always returns a path that starts with '/'; the
\* path has exactly one leading '/' and no adjacent slashes whenever the
\* input is absent, a string without adjacent slashes, or a sequence of
\* non-empty segments without '/'; absent parameters or an absent path give
\* '/', segments ["a","b"] give '/a/b'.
C8_LeadingSlashEnsured ==
  Extracted =>
    /\ Len(retPath) >= 1 /\ retPath[1] = "/"
    /\ SuppliesNoSlashRuns(argParams) => OneLeadingSlashNoDuplicates(retPath)
    /\ (~argParams.defined \/ argParams.path.kind = "undefined") => retPath = <<"/">>
    /\ argParams = Params(PathArray(<<<<"a">>, <<"b">>>>)) => retPath = <<"/", "a", "/", "b">>

\* a path parameter missing its leading slash has gained exactly one
C8_Witness ==
  /\ argParams = Params(PathString(<<"a", "/", "b">>))
  /\ retPath = <<"/", "a", "/", "b">>

\* C9: for a request-time resolution whose layout fetch fails with status 401
\* the user is shown the unauthorized view; getServerSideProps puts
\* notFound: true in its return value only for resolutions that are not
\* unauthorized.
C9_UnauthorizedViewShown ==
  \A call \in Running :
    call.response # Null =>
      /\ LayoutFailedWith(call, 401) => call.response.page = "Unauthorized"
      /\ "notFound" \in DOMAIN call.response.returned =>
           ~call.outcome.props.unauthorized

\* C10: in every resolution that returns, the component props service is
\* invoked exactly once if the resolved layout data has a route and never
\* otherwise, after the layout or editing data and the dictionary have been
\* obtained; the request-time entry point is used exactly when the context
\* carries a request handle, in the preview branch and in the normal branch.
C10_ComponentPropsFetch ==
  \A call \in Running :
    Returned(call) =>
      LET fetches == Times(call, "fetchServerSideComponentProps")
                       + Times(call, "fetchStaticComponentProps")
          last    == call.invoked[Len(call.invoked)]
      IN  /\ fetches = (IF HasRoute(call.layoutData) THEN 1 ELSE 0)
          /\ HasRoute(call.layoutData) =>
               /\ last \in ComponentPropsOps
               /\ (last = "fetchServerSideComponentProps")
                    <=> (call.context.req # "undefined")
               /\ call.outcome.props.componentProps = ComponentPropsOf(last)
               /\ call.dictionary # Undefined
               /\ IF call.context.preview
                    THEN call.invoked
                           = <<"getSession", "getEditingData", last>>
                    ELSE call.invoked
                           = <<"getSession", "fetchLayoutData",
                               "fetchDictionaryData", last>>
          /\ ~HasRoute(call.layoutData) =>
               call.outcome.props.componentProps = EmptyComponentProps

\* a preview resolution and a normal resolution, both request-time and both
\* with a route, have returned
C10_Witness ==
  \E c1 \in Running, c2 \in Running :
    /\ Returned(c1) /\ Returned(c2)
    /\ c1.context.preview /\ ~c2.context.preview
    /\ c1.context.req # "undefined" /\ c2.context.req # "undefined"
    /\ HasRoute(c1.layoutData) /\ HasRoute(c2.layoutData)
    /\ Times(c1, "fetchServerSideComponentProps") = 1
    /\ Times(c2, "fetchServerSideComponentProps") = 1
====
